---- MODULE Spec2Model ----
(***************************************************************************)
(* Dither stackers of mafContrib/newDitherStackers.py.                     *)
(*                                                                         *)
(* Angles and offsets are integers in one fixed-point unit: Pi units make  *)
(* pi radians, and maxDither is MaxDither units (about 1.75 degrees, the   *)
(* default of every constructor).  sqrt(3) never appears as a number: a    *)
(* comparison with sqrt(3)*b is decided exactly on the squares.  A uniform *)
(* variate u in [0,1) is the integer k standing for u = k/8; sqrt, cos and *)
(* sin of the eight values are tabulated to three decimals.                *)
(***************************************************************************)
EXTENDS Integers, Sequences, FiniteSets, TLC

\* ------------------------------------------------------------------ bounds
\* Largest number of records in a batch handed to run.
MaxRecords == 2
\* Largest batch of the tiling specification SpecTile.
MaxOffsets == 6
\* Margin added to ceil(sqrt(noffsets)) tiles per side (the source uses 170,
\* which puts the too-few-tiles case beyond half a million records).
TileMargin == 0

\* ------------------------------------------------------- program constants
Pi == 12360
MaxDither == 120
SeasonMax == 9
\* dith_level of _generateHexOffsets.
DithLevel == 4

FieldIds == {1, 2}
Nights == {1, 2}
SeasonLabels == {0, 9, 10, 11}
\* Values an unseeded np.random.rand may return (k stands for k/8).
RandVals == {0, 7}
\* Values of randomSeed; <<>> is None.
Seeds == {<<>>, <<1>>, <<2>>}
\* Values of the constructor argument numPoints of the spiral stackers.
SpiralNumPoints == {1, 2, 3}

\* --------------------------------------------------------------- arithmetic
Abs(a) == IF a < 0 THEN -a ELSE a

Min(a, b) == IF a < b THEN a ELSE b

\* a < sqrt(3) * b, exactly.
LtSqrt3(a, b) ==
    IF b >= 0
    THEN a < 0 \/ a * a < 3 * b * b
    ELSE a < 0 /\ a * a > 3 * b * b

\* a > sqrt(3) * b, exactly.
GtSqrt3(a, b) == LtSqrt3(-a, -b)

\* a <= sqrt(3) * b and a >= sqrt(3) * b, exactly.
LeSqrt3(a, b) == ~GtSqrt3(a, b)

GeSqrt3(a, b) == ~LtSqrt3(a, b)

\* Smallest s with s * s >= n: np.ceil(np.sqrt(n)).
RECURSIVE CeilSqrtFrom(_, _)
CeilSqrtFrom(n, s) == IF s * s >= n THEN s ELSE CeilSqrtFrom(n, s + 1)

CeilSqrt(n) == CeilSqrtFrom(n, 0)

\* 1000 * sqrt(k/8), 1000 * cos(2 pi k/8), 1000 * sin(2 pi k/8) for k = 0..7.
SqrtTab == <<0, 354, 500, 612, 707, 791, 866, 935>>

CosTab == <<1000, 707, 0, -707, -1000, -707, 0, 707>>

SinTab == <<0, 707, 1000, 707, 0, -707, -1000, -707>>

\* Rounded product of a length and a tabulated factor.
Scaled(len, milli) == (len * milli) \div 1000

RECURSIVE SelectIdx(_, _, _)
\* The indices i >= from of s with keep[i], ascending: np.where(mask)[0].
SelectIdx(keep, from, n) ==
    IF from > n THEN <<>>
    ELSE IF keep[from] THEN <<from>> \o SelectIdx(keep, from + 1, n)
    ELSE SelectIdx(keep, from + 1, n)

\* The members of a finite set of integers in ascending order: np.unique.
RECURSIVE SortedSeq(_)
SortedSeq(S) ==
    IF S = {} THEN <<>>
    ELSE LET m == CHOOSE x \in S : \A y \in S : x <= y
         IN <<m>> \o SortedSeq(S \ {m})

\* 0-based insertion rank of v in the ascending sequence u: np.searchsorted.
SearchSorted(u, v) == Cardinality({j \in 1..Len(u) : u[j] < v})

\* -------------------------------------------------------------- wrapRADec
\* Both reflections tested on the dec that came in.
wrapElemMasksFirst(ra, dec) ==
    LET lowHit == 2 * dec < -Pi
        highHit == 2 * dec > Pi
        dec2 == IF lowHit THEN -1 * (Pi + dec)
                ELSE IF highHit THEN Pi - dec ELSE dec
        ra2 == IF lowHit \/ highHit THEN ra - Pi ELSE ra
    IN [ra |-> ra2 % (2 * Pi), dec |-> dec2]

\* One element of wrapRADec: the low reflection, then the high reflection on
\* the already reflected dec, then ra modulo 2 pi.
wrapElem(ra, dec) ==
    LET lowHit == 2 * dec < -Pi
        dec1 == IF lowHit THEN -1 * (Pi + dec) ELSE dec
        ra1 == IF lowHit THEN ra - Pi ELSE ra
        highHit == 2 * dec1 > Pi
        dec2 == IF highHit THEN Pi - dec1 ELSE dec1
        ra2 == IF highHit THEN ra1 - Pi ELSE ra1
    IN [ra |-> ra2 % (2 * Pi), dec |-> dec2]

\* wrapRADec on two equally long columns.
wrapRADec(ra, dec) ==
    [ra |-> [i \in 1..Len(ra) |-> wrapElem(ra[i], dec[i]).ra],
     dec |-> [i \in 1..Len(dec) |-> wrapElem(ra[i], dec[i]).dec]]

\* ------------------------------------------------------------------- state
VARIABLES
    cls,            \* the stacker class of the instance
    randomSeed,     \* self.randomSeed: <<>> for None, <<s>> for the seed s
    numPoints,      \* self.numPoints; 0 while the instance has none
    missingCol,     \* the required column the batches lack; "" for none
    hasOff,         \* the instance has the attributes xOff and yOff
    xOff, yOff,     \* self.xOff, self.yOff
    rng,            \* state of np.random after a call of np.random.seed
    pc,             \* position of the current run call
    err,            \* name of the exception that ended the run
    simData,        \* the batch: a sequence of records
    seasons,        \* the season column, as run holds it
    colsAdded,      \* _addStackers has added the two output columns
    outRA, outDec,  \* the two output columns
    written,        \* the records whose output entries run has assigned
    vertexIdxs,     \* the 0-based offset index run applied to each record
    delta,          \* the per-field-per-night counter
    noffsets,       \* the count the generator was called with
    cand,           \* the pairs (radius variate, angle variate) drawn so far
    fresh,          \* the generator stored xOff and yOff during this run
    tileSide,       \* _generateRepRandomOffsets: local tileSide
    xCenter, yCenter,       \* its remaining pool
    numPointsInsideHex,     \* its local numPointsInsideHex
    index_sq, index_pt,     \* its cursors into the two variate arrays
    xLoc, yLoc,     \* its local xOff and yOff, the entries filled so far
    tilesUsed,      \* the tile centre each entry of xLoc, yLoc started from
    refBatch, refSeen, refResult,   \* the first result of a run on refBatch
    wIn, wOut       \* input and result of a bare wrapRADec call

vars == <<cls, randomSeed, numPoints, missingCol, hasOff, xOff, yOff, rng, pc, err, simData, seasons,
          colsAdded, outRA, outDec, written, vertexIdxs, delta, noffsets, cand,
          fresh, tileSide, xCenter, yCenter, numPointsInsideHex, index_sq,
          index_pt, xLoc, yLoc, tilesUsed, refBatch, refSeen, refResult,
          wIn, wOut>>

instVars == <<cls, randomSeed, numPoints, missingCol>>

repVars == <<tileSide, xCenter, yCenter, numPointsInsideHex, index_sq,
             index_pt, xLoc, yLoc, tilesUsed>>

wrapVars == <<wIn, wOut>>

refVars == <<refBatch, refSeen, refResult>>

\* ----------------------------------------------------------------- classes
RandomClasses ==
    {"RandomDitherFieldPerVisit", "RandomDitherFieldPerNight",
     "RandomDitherPerNight"}

RepulsiveClasses ==
    {"RepulsiveRandomDitherFieldPerVisit", "RepulsiveRandomDitherFieldPerNight",
     "RepulsiveRandomDitherPerNight"}

SeasonClasses ==
    {"PentagonDitherFieldPerSeason", "PentagonDiamondDitherFieldPerSeason",
     "PentagonDitherPerSeason", "PentagonDiamondDitherPerSeason"}

\* The stackers with a spiral and with a hexagonal grid of offsets.
SpiralClasses ==
    {"SpiralDitherFieldPerVisit", "SpiralDitherFieldPerNight",
     "SpiralDitherPerNight"}

HexClasses ==
    {"SequentialHexDitherFieldPerVisit", "SequentialHexDitherFieldPerNight",
     "SequentialHexDitherPerNight"}

SequentialClasses == SpiralClasses \cup HexClasses

SequentialPerVisitClasses ==
    {"SpiralDitherFieldPerVisit", "SequentialHexDitherFieldPerVisit"}

SequentialFieldPerNightClasses ==
    {"SpiralDitherFieldPerNight", "SequentialHexDitherFieldPerNight"}

SequentialPerNightClasses ==
    {"SpiralDitherPerNight", "SequentialHexDitherPerNight"}

PerVisitClasses ==
    {"RandomDitherFieldPerVisit", "RepulsiveRandomDitherFieldPerVisit"}

FieldPerNightClasses ==
    {"RandomDitherFieldPerNight", "RepulsiveRandomDitherFieldPerNight"}

PerNightClasses == {"RandomDitherPerNight", "RepulsiveRandomDitherPerNight"}

FieldPerSeasonClasses ==
    {"PentagonDitherPerSeason", "PentagonDiamondDitherPerSeason"}

\* ------------------------------------------------------------------ batches
\* A field is a fixed pointing: fieldRA and fieldDec of field f.
FieldRA(f) == ((f - 1) * (Pi \div 2)) % (2 * Pi)

FieldDec(f) == IF f % 2 = 1 THEN 0 ELSE Pi \div 3

\* The records a class reads, by its colsReq.
RecordsOf(c) ==
    IF c \in PerVisitClasses
    THEN {[ra |-> FieldRA(f), dec |-> FieldDec(f)] : f \in FieldIds}
    ELSE IF c \in FieldPerNightClasses
    THEN {[ra |-> FieldRA(f), dec |-> FieldDec(f), fieldID |-> f, night |-> k] :
            f \in FieldIds, k \in Nights}
    ELSE IF c \in PerNightClasses
    THEN {[ra |-> FieldRA(f), dec |-> FieldDec(f), night |-> k] :
            f \in FieldIds, k \in Nights}
    ELSE IF c \in SequentialPerVisitClasses
    THEN {[ra |-> FieldRA(f), dec |-> FieldDec(f), fieldID |-> f] :
            f \in FieldIds}
    ELSE IF c \in SequentialClasses
    THEN {[ra |-> FieldRA(f), dec |-> FieldDec(f), fieldID |-> f, night |-> k] :
            f \in FieldIds, k \in Nights}
    ELSE {[ra |-> FieldRA(f), dec |-> FieldDec(f), fieldID |-> f, season |-> s] :
            f \in FieldIds, s \in SeasonLabels}

Batches(c) == UNION {[1..n -> RecordsOf(c)] : n \in 1..MaxRecords}

Column(data, name) == [i \in 1..Len(data) |-> data[i][name]]

Values(col) == {col[i] : i \in 1..Len(col)}

\* x / np.cos(dec) for the declinations of the fields.
DivCos(x, dec) == IF dec = 0 THEN x ELSE 2 * x

\* ------------------------------------------------------------ random stream
\* np.random.seed(s); the generator is a small linear congruential one.
SeedState(s) == s % 16

LcgStep(x) == (5 * x + 9) % 16

RECURSIVE Stream(_, _)
\* The next count values of np.random.rand from state x.
Stream(x, count) ==
    IF count = 0 THEN <<>>
    ELSE <<LcgStep(x) \div 2>> \o Stream(LcgStep(x), count - 1)

RECURSIVE Advance(_, _)
Advance(x, count) == IF count = 0 THEN x ELSE Advance(LcgStep(x), count - 1)

Seeded == randomSeed # <<>>

\* ---------------------------------------------------------------- hexagon
\* The strict test without its second edge, yOff > m*xOff - b.
InsideHexFiveEdges(x, y) ==
    /\ LtSqrt3(y, x + MaxDither)
    /\ LtSqrt3(y, MaxDither - x)
    /\ GtSqrt3(y, -x - MaxDither)
    /\ LtSqrt3(2 * y, MaxDither)
    /\ GtSqrt3(2 * y, -MaxDither)

\* The strict test of _generateRandomOffsets.
InsideHexStrict(x, y) ==
    /\ LtSqrt3(y, x + MaxDither)
    /\ GtSqrt3(y, x - MaxDither)
    /\ LtSqrt3(y, MaxDither - x)
    /\ GtSqrt3(y, -x - MaxDither)
    /\ LtSqrt3(2 * y, MaxDither)
    /\ GtSqrt3(2 * y, -MaxDither)

\* The test of _generateRepRandomOffsets on the tile centres.
InsideHexClosed(x, y) ==
    /\ LeSqrt3(y, x + MaxDither)
    /\ GeSqrt3(y, x - MaxDither)
    /\ LeSqrt3(y, MaxDither - x)
    /\ GeSqrt3(y, -x - MaxDither)
    /\ LeSqrt3(2 * y, MaxDither)
    /\ GeSqrt3(2 * y, -MaxDither)

\* ------------------------------------------------------------ initial state
Zeros(n) == [i \in 1..n |-> 0]

\* No run is going on: the locals of run and of the generators are empty.
IdleLocals ==
    /\ pc = "idle" /\ err = "" /\ simData = <<>> /\ seasons = <<>>
    /\ colsAdded = FALSE /\ outRA = <<>> /\ outDec = <<>> /\ written = {}
    /\ vertexIdxs = <<>> /\ delta = 0 /\ noffsets = 0 /\ cand = <<>>
    /\ fresh = FALSE
    /\ tileSide = 0 /\ xCenter = <<>> /\ yCenter = <<>>
    /\ numPointsInsideHex = 0 /\ index_sq = 0 /\ index_pt = 0
    /\ xLoc = <<>> /\ yLoc = <<>> /\ tilesUsed = <<>>

\* A stacker as __init__ leaves it: no xOff, no yOff.
Init ==
    /\ cls \in RandomClasses \cup SeasonClasses \cup SequentialClasses
    /\ randomSeed \in (IF cls \in RandomClasses THEN Seeds ELSE {<<>>})
    /\ hasOff = FALSE /\ xOff = <<>> /\ yOff = <<>>
    /\ rng = 0
    /\ numPoints \in (IF cls \in SpiralClasses THEN SpiralNumPoints ELSE {0})
    /\ missingCol = ""
    /\ IdleLocals
    /\ refBatch \in (IF randomSeed = <<>> THEN {<<>>} ELSE Batches(cls))
    /\ refSeen = FALSE
    /\ refResult = [pc |-> "idle", err |-> "", outRA |-> <<>>, outDec |-> <<>>]
    /\ wIn = <<>> /\ wOut = <<>>

\* The end of a run call, by return or by an exception: the first result on
\* refBatch is kept for comparison with the later ones.
EndRun(batch, how, e, ra, dec) ==
    /\ pc' = how
    /\ err' = e
    /\ outRA' = ra
    /\ outDec' = dec
    /\ refSeen' = (refSeen \/ batch = refBatch)
    /\ refResult' = IF ~refSeen /\ batch = refBatch
                    THEN [pc |-> how, err |-> e, outRA |-> ra, outDec |-> dec]
                    ELSE refResult
    /\ UNCHANGED refBatch

\* ------------------------------------------------------- run: up to the generator
\* The count the random generators are called with.
NOffsets(c, batch) ==
    IF c \in PerNightClasses
    THEN Cardinality(Values(Column(batch, "night")))
    ELSE Len(batch)

\* colsReq of the class.
ColsReq(c) ==
    IF c \in PerVisitClasses THEN {"ra", "dec"}
    ELSE IF c \in PerNightClasses THEN {"ra", "dec", "night"}
    ELSE IF c \in SequentialPerVisitClasses THEN {"ra", "dec", "fieldID"}
    ELSE {"ra", "dec", "fieldID", "night"}

\* The columns run reads: the spiral and hexagonal-grid per-night stackers
\* inherit fieldIdCol in colsReq and never read it.
ColsRead(c) ==
    IF c \in SequentialPerNightClasses THEN {"ra", "dec", "night"}
    ELSE ColsReq(c)

\* The column the random stackers count the offsets on.
CountColumn(c) == IF c \in PerNightClasses THEN "night" ELSE "ra"

\* The columns run reads after the generator call and before self.xOff: the
\* per-night random stackers read self.xOff first (zip), the others read
\* every column but decCol before it.
ColsBeforeOffsets(c) ==
    IF c \in PerNightClasses THEN {} ELSE ColsRead(c) \ {"dec"}

\* run of the random and repulsive-random stackers up to the generator call:
\* np.random.seed, _addStackers, noffsets.  Reading a column the batch does
\* not have raises ValueError.
RunRandomStart ==
    /\ pc = "idle"
    /\ cls \in RandomClasses \cup RepulsiveClasses
    /\ rng' = IF Seeded THEN SeedState(randomSeed[1]) ELSE rng
    /\ colsAdded' = TRUE
    /\ \E batch \in Batches(cls) :
        /\ simData' = batch
        /\ IF missingCol = CountColumn(cls)
           THEN /\ noffsets' = noffsets
                /\ EndRun(batch, "raised", "ValueError",
                          Zeros(Len(batch)), Zeros(Len(batch)))
           ELSE /\ noffsets' = NOffsets(cls, batch)
                /\ outRA' = Zeros(Len(batch))
                /\ outDec' = Zeros(Len(batch))
                /\ pc' = "generate"
                /\ UNCHANGED <<err, refVars>>
    /\ UNCHANGED <<instVars, hasOff, xOff, yOff, seasons, written,
                   vertexIdxs, delta, cand, fresh, repVars, wrapVars>>

\* The classes whose run stops on more than one distinct season above 9.
HasSeasonCheck(c) == c # "PentagonDitherPerSeason"

\* A wrap that sends every entry above 9 to season 0.
WrapSeasonsToZero(col) ==
    [i \in 1..Len(col) |-> IF col[i] > SeasonMax THEN 0 ELSE col[i]]

\* No wrap at all.
WrapSeasonsNone(col) == col

\* seasons[ind] = seasons[ind] % 10 for the entries above 9.
WrapSeasons(col) ==
    [i \in 1..Len(col) |-> IF col[i] > SeasonMax THEN col[i] % 10 ELSE col[i]]

\* run of the season stackers up to the generator call: the season column,
\* the check of the seasons above 9, the wrap, _addStackers.
RunSeasonStart ==
    /\ pc = "idle"
    /\ cls \in SeasonClasses
    /\ \E batch \in Batches(cls) :
        LET col == Column(batch, "season")
            ind == {i \in 1..Len(col) : col[i] > SeasonMax}
        IN /\ simData' = batch
           /\ IF HasSeasonCheck(cls) /\ Cardinality({col[i] : i \in ind}) > 1
              THEN /\ seasons' = col
                   /\ colsAdded' = FALSE
                   /\ EndRun(batch, "raised", "NameError", <<>>, <<>>)
              ELSE /\ seasons' = WrapSeasons(col)
                   /\ colsAdded' = TRUE
                   /\ outRA' = Zeros(Len(batch))
                   /\ outDec' = Zeros(Len(batch))
                   /\ pc' = "generate"
                   /\ UNCHANGED <<err, refVars>>
    /\ UNCHANGED <<instVars, hasOff, xOff, yOff, rng, written, vertexIdxs,
                   delta, noffsets, cand, fresh, repVars, wrapVars>>

\* ------------------------------------------------- _generateRandomOffsets
\* The candidate of the variates r (radius) and t (angle).
CandX(r, t) == Scaled(Scaled(MaxDither, SqrtTab[r + 1]), CosTab[t + 1])

CandY(r, t) == Scaled(Scaled(MaxDither, SqrtTab[r + 1]), SinTab[t + 1])

\* Pairs of variates (radius, angle) an unseeded generator may draw for one
\* candidate: the centre, a point inside near a corner, a point outside.
RandPairs == {<<0, 0>>, <<7, 0>>, <<7, 7>>}

\* The candidates an unseeded generator may draw: 2 * n pairs of variates.
FreeCandidates(n) == [1..(2 * n) -> RandPairs]

\* The candidates drawn from the state x of the stream: entry k of the
\* first rand call and entry k of the second.
SeededCandidates(x, n) ==
    [k \in 1..(2 * n) |-> <<Stream(x, 4 * n)[k], Stream(x, 4 * n)[2 * n + k]>>]

\* index = np.where(inside the hexagon)[0] over the candidates c.
AcceptedIdx(c) ==
    SelectIdx([k \in 1..Len(c) |-> InsideHexStrict(CandX(c[k][1], c[k][2]),
                                                   CandY(c[k][1], c[k][2]))],
              1, Len(c))

\* index[0:noffsets]: a slice stops at the end of index.
KeptIdx(index, n) == SubSeq(index, 1, Min(n, Len(index)))

\* _generateRandomOffsets on the candidates c: ok is FALSE where too few
\* are accepted, which is printed; else x and y are what it stores.
RandomOffsets(c, n) ==
    LET index == AcceptedIdx(c)
        kept == KeptIdx(index, n)
    IN [ok |-> Len(index) >= n,
        x |-> [k \in 1..Len(kept) |-> CandX(c[kept[k]][1], c[kept[k]][2])],
        y |-> [k \in 1..Len(kept) |-> CandY(c[kept[k]][1], c[kept[k]][2])]]

\* The effect of _generateRandomOffsets on the instance.
StoreRandom(c) ==
    IF RandomOffsets(c, noffsets).ok
    THEN /\ xOff' = RandomOffsets(c, noffsets).x
         /\ yOff' = RandomOffsets(c, noffsets).y
         /\ hasOff' = TRUE
         /\ fresh' = TRUE
    ELSE UNCHANGED <<hasOff, xOff, yOff, fresh>>

\* The generator call of the random stackers.
RandomGenerate ==
    /\ pc = "generate"
    /\ cls \in RandomClasses
    /\ cand = <<>>
    /\ \E c \in (IF Seeded THEN {SeededCandidates(rng, noffsets)}
                 ELSE FreeCandidates(noffsets)) : StoreRandom(c)
    /\ rng' = IF Seeded THEN Advance(rng, 4 * noffsets) ELSE rng
    /\ pc' = "apply"
    /\ UNCHANGED <<instVars, err, simData, seasons, colsAdded, outRA, outDec,
                   written, vertexIdxs, delta, noffsets, cand, repVars,
                   refVars, wrapVars>>

\* ------------------------------------------- spiral and hexagonal grids
\* run of the spiral and hexagonal-grid stackers up to the generator call.
RunSequentialStart ==
    /\ pc = "idle"
    /\ cls \in SequentialClasses
    /\ \E batch \in Batches(cls) :
        /\ simData' = batch
        /\ outRA' = Zeros(Len(batch))
        /\ outDec' = Zeros(Len(batch))
    /\ colsAdded' = TRUE
    /\ pc' = "generate"
    /\ UNCHANGED <<instVars, hasOff, xOff, yOff, rng, err, seasons, written,
                   vertexIdxs, delta, noffsets, cand, fresh, repVars, refVars,
                   wrapVars>>

\* The points of the spiral taken from the outer end inwards.
SpiralTabOutsideIn ==
    << <<<<0, 0>>>>,
       <<<<-71, -13>>, <<0, 0>>>>,
       <<<<73, 39>>, <<42, -41>>, <<0, 0>>>> >>

\* xOff, yOff of _generateSpiralOffsets for numPoints = 1, 2, 3 and five
\* coils, rounded: the points at equal steps of arc length along the spiral
\* r = a * theta, a = 0.85 * maxDither / theta.max().
SpiralTab ==
    << <<<<0, 0>>>>,
       <<<<0, 0>>, <<-71, -13>>>>,
       <<<<0, 0>>, <<42, -41>>, <<73, 39>>>> >>

\* The generator call of the spiral stackers.
GenerateSpiral ==
    /\ pc = "generate"
    /\ cls \in SpiralClasses
    /\ xOff' = [k \in 1..numPoints |-> SpiralTab[numPoints][k][1]]
    /\ yOff' = [k \in 1..numPoints |-> SpiralTab[numPoints][k][2]]
    /\ hasOff' = TRUE
    /\ fresh' = TRUE
    /\ pc' = "apply"
    /\ UNCHANGED <<instVars, rng, err, simData, seasons, colsAdded, outRA,
                   outDec, written, vertexIdxs, delta, noffsets, cand,
                   repVars, refVars, wrapVars>>

\* nrows and halfrows of _generateHexOffsets.
NRows == 2 ^ DithLevel

HalfRows == NRows \div 2

\* a / b rounded towards zero.
DivTrunc(a, b) == IF a < 0 THEN -((-a) \div b) ELSE a \div b

\* nid_row[p] and, after the first loop, vert_in_row[p] for p in 0..nrows:
\* the loop runs i over -halfrows..halfrows and a negative i indexes from
\* the end, so every position is written once, from nid_row of the same
\* position.
NidRow(p) == p - HalfRows

\* One vertex too few in every row.
VertInRowShort(p) == NRows - Abs(NidRow(p))

VertInRow(p) == (NRows + 1) - Abs(NidRow(p))

RECURSIVE TotalVertFrom(_)
\* total_vert.
TotalVertFrom(p) == IF p > NRows THEN 0 ELSE VertInRow(p) + TotalVertFrom(p + 1)

\* The row laid out from the right end to the left.
HexRowRightToLeft(p) ==
    [j1 \in 1..VertInRow(p) |->
        <<DivTrunc(95 * MaxDither * ((VertInRow(p) - 1) - 2 * (j1 - 1)),
                   100 * NRows),
          DivTrunc(95 * 1732 * MaxDither * NidRow(p), 100000 * NRows)>>]

\* The offsets of row p: dith_size_x * (j - (vert_in_row - 1) / 2) and
\* dith_size_y * nid_row, sqrt(3) taken as 1.732.
HexRow(p) ==
    [j1 \in 1..VertInRow(p) |->
        <<DivTrunc(95 * MaxDither * (2 * (j1 - 1) - (VertInRow(p) - 1)),
                   100 * NRows),
          DivTrunc(95 * 1732 * MaxDither * NidRow(p), 100000 * NRows)>>]

RECURSIVE HexRowsFrom(_)
HexRowsFrom(p) == IF p > NRows THEN <<>> ELSE HexRow(p) \o HexRowsFrom(p + 1)

\* The generator call of the hexagonal-grid stackers.
GenerateHex ==
    /\ pc = "generate"
    /\ cls \in HexClasses
    /\ numPoints' = TotalVertFrom(0)
    /\ xOff' = [k \in 1..Len(HexRowsFrom(0)) |-> HexRowsFrom(0)[k][1]]
    /\ yOff' = [k \in 1..Len(HexRowsFrom(0)) |-> HexRowsFrom(0)[k][2]]
    /\ hasOff' = TRUE
    /\ fresh' = TRUE
    /\ pc' = "apply"
    /\ UNCHANGED <<cls, randomSeed, missingCol, rng, err, simData, seasons,
                   colsAdded, outRA, outDec, written, vertexIdxs, delta,
                   noffsets, cand, repVars, refVars, wrapVars>>

\* ------------------------------------------------------ polygon generators
\* 1000 * sin of k * 18 degrees, k = 0..19.
Sin18Tab == <<0, 309, 588, 809, 951, 1000, 951, 809, 588, 309,
              0, -309, -588, -809, -951, -1000, -951, -809, -588, -309>>

SinDeg18(k) == Sin18Tab[(k % 20) + 1]

CosDeg18(k) == Sin18Tab[((k + 5) % 20) + 1]

\* polygonCoords; rotationAngle is rot18 * 18 degrees.
polygonCoords(nside, radius, rot18) ==
    [i \in 1..nside |->
        <<Scaled(radius, SinDeg18((20 \div nside) * (i - 1) + rot18)),
          Scaled(radius, CosDeg18((20 \div nside) * (i - 1) + rot18))>>]

Firsts(pairs) == [i \in 1..Len(pairs) |-> pairs[i][1]]

Seconds(pairs) == [i \in 1..Len(pairs) |-> pairs[i][2]]

\* The outer pentagon left in the order polygonCoords returns it.
PentagonOffsetsUnrotated ==
    polygonCoords(5, (MaxDither * 10) \div 25, 0)
        \o polygonCoords(5, (MaxDither * 10) \div 13, 10)

\* _generatePentagonOffsets: the inner pentagon, then the outer one in the
\* order outerTemp[2:5], outerTemp[0:2].
PentagonOffsets ==
    LET inner == polygonCoords(5, (MaxDither * 10) \div 25, 0)
        outerTemp == polygonCoords(5, (MaxDither * 10) \div 13, 10)
        outer == SubSeq(outerTemp, 3, 5) \o SubSeq(outerTemp, 1, 2)
    IN inner \o outer

\* _generateOffsets: the origin, the diamond, the pentagon.
PentagonDiamondOffsets ==
    LET pentCoord == polygonCoords(5, (MaxDither * 10) \div 13, 0)
        diamondCoord == polygonCoords(4, (MaxDither * 10) \div 25, 5)
    IN <<<<0, 0>>>> \o diamondCoord \o pentCoord

PentagonClasses == {"PentagonDitherFieldPerSeason", "PentagonDitherPerSeason"}

\* The generator call of the season stackers.
GeneratePolygon ==
    /\ pc = "generate"
    /\ cls \in SeasonClasses
    /\ LET pts == IF cls \in PentagonClasses
                  THEN PentagonOffsets ELSE PentagonDiamondOffsets
       IN /\ xOff' = Firsts(pts)
          /\ yOff' = Seconds(pts)
    /\ hasOff' = TRUE
    /\ fresh' = TRUE
    /\ pc' = "apply"
    /\ UNCHANGED <<instVars, rng, err, simData, seasons, colsAdded, outRA,
                   outDec, written, vertexIdxs, delta, noffsets, cand,
                   repVars, refVars, wrapVars>>

\* ---------------------------------------------- _generateRepRandomOffsets
\* sqrt(numTiles): the tiles on a side of the circumscribing square.
TilesPerSide(n) == CeilSqrt(n) + TileMargin

\* xCenter and yCenter of tile i (from 1), rows from the top, left to right.
TileX(i, n, side) ==
    -((side * (TilesPerSide(n) - 1)) \div 2) + ((i - 1) % TilesPerSide(n)) * side

TileY(i, n, side) ==
    ((side * (TilesPerSide(n) - 1)) \div 2) - ((i - 1) \div TilesPerSide(n)) * side

\* (u - 0.5) * tileSide for the variate k.
Jitter(k, side) == ((2 * k - 8) * side) \div 16

\* The index rounded up instead of down.
RandIndexCeil(k, numInside) == (k * numInside + 7) \div 8

\* int(np.floor(u * numPointsInsideHex)) for the variate k.
RandIndex(k, numInside) == (k * numInside) \div 8

\* list.remove(v): the list without the first entry equal to v.
ListRemove(list, v) ==
    LET i == CHOOSE i \in 1..Len(list) :
                 list[i] = v /\ \A j \in 1..(i - 1) : list[j] # v
    IN SubSeq(list, 1, i - 1) \o SubSeq(list, i + 1, Len(list))

\* A check of the number of tiles that never stops.
TooFewTilesNever(numInside, n) == FALSE

\* if (numPointsInsideHex < noffsets): ... stop
TooFewTiles(numInside, n) == numInside < n

\* The tiling, the tiles inside the hexagon and the check of their number.
RepTiles ==
    /\ pc = "generate"
    /\ cls \in RepulsiveClasses
    /\ LET numTiles == TilesPerSide(noffsets) * TilesPerSide(noffsets)
           side == (2 * MaxDither) \div TilesPerSide(noffsets)
           insideHex ==
               SelectIdx([i \in 1..numTiles |->
                             InsideHexClosed(TileX(i, noffsets, side),
                                             TileY(i, noffsets, side))],
                         1, numTiles)
       IN /\ tileSide' = side
          /\ numPointsInsideHex' = Len(insideHex)
          /\ IF Len(insideHex) = 0
             THEN /\ EndRun(simData, "raised", "ZeroDivisionError", outRA, outDec)
                  /\ UNCHANGED <<xCenter, yCenter>>
             ELSE IF TooFewTiles(Len(insideHex), noffsets)
             THEN /\ EndRun(simData, "raised", "NameError", outRA, outDec)
                  /\ UNCHANGED <<xCenter, yCenter>>
             ELSE /\ xCenter' = [k \in 1..Len(insideHex) |->
                                    TileX(insideHex[k], noffsets, side)]
                  /\ yCenter' = [k \in 1..Len(insideHex) |->
                                    TileY(insideHex[k], noffsets, side)]
                  /\ pc' = "select"
                  /\ UNCHANGED <<err, outRA, outDec, refVars>>
    /\ UNCHANGED <<instVars, hasOff, xOff, yOff, rng, simData, seasons,
                   colsAdded, written, vertexIdxs, delta, noffsets, cand,
                   fresh, index_sq, index_pt, xLoc, yLoc, tilesUsed, wrapVars>>

\* Entry k of randNumsForLatticeSq and of randNumsForPointInSq: any of
\* RandVals without a seed, else the next values of the stream.
LatticeVariates(k) ==
    IF Seeded THEN {Stream(rng, 5 * noffsets)[k]} ELSE RandVals

PointVariates(k) ==
    IF Seeded THEN {Stream(rng, 5 * noffsets)[3 * noffsets + k]} ELSE RandVals

\* One pass of the selection loop: the tile, the point in it, the removal.
RepSelect ==
    /\ pc = "select"
    /\ Len(xLoc) < noffsets
    /\ \E u \in LatticeVariates(index_sq + 1),
          jx \in PointVariates(index_pt + 1),
          jy \in PointVariates(index_pt + 2) :
        /\ LET randIndex == RandIndex(u, numPointsInsideHex)
           IN IF randIndex > Len(xCenter) - 1
              THEN \* the retry loop never changes randIndex: it ends in stop
                   /\ index_sq' = 3 * noffsets
                   /\ EndRun(simData, "raised", "NameError", outRA, outDec)
                   /\ UNCHANGED <<xCenter, yCenter, numPointsInsideHex,
                                  index_pt, xLoc, yLoc, tilesUsed>>
              ELSE /\ xLoc' = Append(xLoc, xCenter[randIndex + 1]
                                           + Jitter(jx, tileSide))
                   /\ yLoc' = Append(yLoc, yCenter[randIndex + 1]
                                           + Jitter(jy, tileSide))
                   /\ tilesUsed' = Append(tilesUsed, <<xCenter[randIndex + 1],
                                                       yCenter[randIndex + 1]>>)
                   /\ xCenter' = ListRemove(xCenter, xCenter[randIndex + 1])
                   /\ yCenter' = ListRemove(yCenter, yCenter[randIndex + 1])
                   /\ numPointsInsideHex' = numPointsInsideHex - 1
                   /\ index_sq' = index_sq + 1
                   /\ index_pt' = index_pt + 2
                   /\ UNCHANGED <<pc, err, outRA, outDec, refVars>>
    /\ UNCHANGED <<instVars, hasOff, xOff, yOff, rng, simData, seasons,
                   colsAdded, written, vertexIdxs, delta, noffsets, cand,
                   fresh, tileSide, wrapVars>>

\* self.xOff = xOff; self.yOff = yOff
RepStore ==
    /\ pc = "select"
    /\ Len(xLoc) = noffsets
    /\ xOff' = xLoc
    /\ yOff' = yLoc
    /\ hasOff' = TRUE
    /\ fresh' = TRUE
    /\ rng' = IF Seeded THEN Advance(rng, 5 * noffsets) ELSE rng
    /\ pc' = "apply"
    /\ UNCHANGED <<instVars, err, simData, seasons, colsAdded, outRA, outDec,
                   written, vertexIdxs, delta, noffsets, cand, repVars,
                   refVars, wrapVars>>

\* --------------------------------------------------- run: after the generator
\* A ranking over the whole batch, whatever the field.
PerFieldIdxAcrossFields(data, keys, len) ==
    [i \in 1..Len(data) |->
        Cardinality({keys[j] : j \in {j \in 1..Len(data) : keys[j] < keys[i]}})
            % len]

\* np.searchsorted(np.unique(keys[match]), keys[match]) % len of the records
\* of each field, for every field of the batch.
PerFieldIdx(data, keys, len) ==
    [i \in 1..Len(data) |->
        LET match == {j \in 1..Len(data) : data[j].fieldID = data[i].fieldID}
        IN SearchSorted(SortedSeq({keys[j] : j \in match}), keys[i]) % len]

\* vertexID of the pass of the loop over np.unique(keys) that meets record i.
GlobalIdx(keys, len) ==
    [i \in 1..Len(keys) |-> SearchSorted(SortedSeq(Values(keys)), keys[i]) % len]

\* One counter over the whole batch.
VisitRankAcrossFields(data, i) == i - 1

\* np.arange(0, len(match), 1) at record i: its position among the records
\* of its field, in batch order.
VisitRank(data, i) ==
    Cardinality({j \in 1..(i - 1) : data[j].fieldID = data[i].fieldID})

\* The offset index of every record, and the records a run assigns, with
\* len entries in self.xOff.  ok is FALSE where numpy cannot broadcast.
Assignment(c, data, seas, len) ==
    IF c \in SequentialPerVisitClasses
    THEN [ok |-> TRUE,
          idx |-> [i \in 1..Len(data) |-> VisitRank(data, i) % len],
          wr |-> 1..Len(data),
          delta |-> 0]
    ELSE IF c \in SequentialFieldPerNightClasses
    THEN [ok |-> TRUE,
          idx |-> PerFieldIdx(data, Column(data, "night"), len),
          wr |-> 1..Len(data),
          delta |-> 0]
    ELSE IF c \in SequentialPerNightClasses
    THEN [ok |-> TRUE,
          idx |-> GlobalIdx(Column(data, "night"), len),
          wr |-> 1..Len(data),
          delta |-> 0]
    ELSE IF c \in PerVisitClasses
    THEN [ok |-> len = Len(data) \/ len = 1,
          idx |-> [i \in 1..Len(data) |-> IF len = 1 THEN 0 ELSE i - 1],
          wr |-> 1..Len(data),
          delta |-> 0]
    ELSE IF c \in FieldPerNightClasses
    THEN [ok |-> TRUE,
          idx |-> PerFieldIdx(data, Column(data, "night"), len),
          wr |-> 1..Len(data),
          delta |-> Len(data)]
    ELSE IF c \in PerNightClasses
    THEN LET nights == SortedSeq(Values(Column(data, "night")))
             rank == [i \in 1..Len(data) |-> SearchSorted(nights, data[i].night)]
         IN [ok |-> TRUE,
             idx |-> rank,
             wr |-> {i \in 1..Len(data) : rank[i] < Min(Len(nights), len)},
             delta |-> 0]
    ELSE IF c \in FieldPerSeasonClasses
    THEN [ok |-> TRUE,
          idx |-> PerFieldIdx(data, seas, len),
          wr |-> 1..Len(data),
          delta |-> 0]
    ELSE [ok |-> TRUE,
          idx |-> GlobalIdx(seas, len),
          wr |-> 1..Len(data),
          delta |-> 0]

\* A modulus one above the length of the offset sequence.
IndexModulusLoose(c) == Len(xOff) + 1

\* What run reduces the ranks by: self.numPoints in the spiral and
\* hexagonal-grid stackers, len(self.xOff) in the others.
IndexModulus(c) == IF c \in SequentialClasses THEN numPoints ELSE Len(xOff)

\* The rest of run: the offsets are read from self, added to the pointings
\* of the assigned records, the columns are wrapped and returned.  A column
\* the batch does not have raises ValueError where run first reads it, always
\* before the first assignment to an output entry.
ApplyOffsets ==
    /\ pc = "apply"
    /\ IF missingCol \in ColsBeforeOffsets(cls)
       THEN /\ EndRun(simData, "raised", "ValueError", outRA, outDec)
            /\ UNCHANGED <<written, vertexIdxs, delta>>
       ELSE IF ~hasOff
       THEN /\ EndRun(simData, "raised", "AttributeError", outRA, outDec)
            /\ UNCHANGED <<written, vertexIdxs, delta>>
       ELSE LET a == Assignment(cls, simData, seasons, IndexModulus(cls))
                ra0 == [i \in 1..Len(simData) |->
                           IF i \in a.wr
                           THEN simData[i].ra
                                + DivCos(xOff[a.idx[i] + 1], simData[i].dec)
                           ELSE outRA[i]]
                dec0 == [i \in 1..Len(simData) |->
                            IF i \in a.wr
                            THEN simData[i].dec + yOff[a.idx[i] + 1]
                            ELSE outDec[i]]
            IN IF ~a.ok
               THEN /\ EndRun(simData, "raised", "ValueError", outRA, outDec)
                    /\ UNCHANGED <<written, vertexIdxs, delta>>
               ELSE IF \E i \in a.wr : a.idx[i] >= Len(xOff)
               THEN /\ EndRun(simData, "raised", "IndexError", outRA, outDec)
                    /\ UNCHANGED <<written, vertexIdxs, delta>>
               ELSE IF missingCol \in ColsRead(cls)
               THEN /\ EndRun(simData, "raised", "ValueError", outRA, outDec)
                    /\ UNCHANGED <<written, vertexIdxs, delta>>
               ELSE /\ written' = a.wr
                    /\ vertexIdxs' = a.idx
                    /\ delta' = a.delta
                    /\ EndRun(simData, "returned", "",
                              wrapRADec(ra0, dec0).ra, wrapRADec(ra0, dec0).dec)
    /\ UNCHANGED <<instVars, hasOff, xOff, yOff, rng, simData, seasons,
                   colsAdded, noffsets, cand, fresh, repVars, wrapVars>>

\* The caller has the result or the exception; the instance stays.
ReturnToCaller ==
    /\ pc \in {"returned", "raised"}
    /\ pc' = "idle" /\ err' = "" /\ simData' = <<>> /\ seasons' = <<>>
    /\ colsAdded' = FALSE /\ outRA' = <<>> /\ outDec' = <<>> /\ written' = {}
    /\ vertexIdxs' = <<>> /\ delta' = 0 /\ noffsets' = 0 /\ cand' = <<>>
    /\ fresh' = FALSE
    /\ tileSide' = 0 /\ xCenter' = <<>> /\ yCenter' = <<>>
    /\ numPointsInsideHex' = 0 /\ index_sq' = 0 /\ index_pt' = 0
    /\ xLoc' = <<>> /\ yLoc' = <<>> /\ tilesUsed' = <<>>
    /\ UNCHANGED <<instVars, hasOff, xOff, yOff, rng, refVars, wrapVars>>

Next ==
    \/ RunRandomStart
    \/ RunSeasonStart
    \/ RandomGenerate
    \/ RunSequentialStart
    \/ GenerateSpiral
    \/ GenerateHex
    \/ GeneratePolygon
    \/ ApplyOffsets
    \/ ReturnToCaller

Spec == Init /\ [][Next]_vars

\* ----------------------------------------- the stackers with fixed patterns
\* The spiral, hexagonal-grid and polygon stackers on their own: no random
\* numbers, the offsets depend on the instance alone.
InitFixed ==
    /\ cls \in SeasonClasses \cup SequentialClasses
    /\ randomSeed = <<>>
    /\ hasOff = FALSE /\ xOff = <<>> /\ yOff = <<>>
    /\ rng = 0
    /\ numPoints \in (IF cls \in SpiralClasses THEN SpiralNumPoints ELSE {0})
    /\ missingCol = ""
    /\ IdleLocals
    /\ refBatch = <<>>
    /\ refSeen = FALSE
    /\ refResult = [pc |-> "idle", err |-> "", outRA |-> <<>>, outDec |-> <<>>]
    /\ wIn = <<>> /\ wOut = <<>>

NextFixed ==
    \/ RunSeasonStart
    \/ RunSequentialStart
    \/ GenerateSpiral
    \/ GenerateHex
    \/ GeneratePolygon
    \/ ApplyOffsets
    \/ ReturnToCaller

SpecFixed == InitFixed /\ [][NextFixed]_vars

\* ------------------------------------------- batches without a column
\* A random, spiral or hexagonal-grid stacker whose callers hand it batches
\* that lack one of the columns of its colsReq.
InitCols ==
    /\ cls \in RandomClasses \cup SequentialClasses
    /\ randomSeed \in (IF cls \in RandomClasses THEN Seeds ELSE {<<>>})
    /\ hasOff = FALSE /\ xOff = <<>> /\ yOff = <<>>
    /\ rng = 0
    /\ numPoints \in (IF cls \in SpiralClasses THEN SpiralNumPoints ELSE {0})
    /\ missingCol \in ColsReq(cls)
    /\ IdleLocals
    /\ refBatch = <<>>
    /\ refSeen = FALSE
    /\ refResult = [pc |-> "idle", err |-> "", outRA |-> <<>>, outDec |-> <<>>]
    /\ wIn = <<>> /\ wOut = <<>>

NextCols ==
    \/ RunRandomStart
    \/ RandomGenerate
    \/ RunSequentialStart
    \/ GenerateSpiral
    \/ GenerateHex
    \/ ApplyOffsets
    \/ ReturnToCaller

SpecCols == InitCols /\ [][NextCols]_vars

\* ------------------------------------------ the repulsive-random stackers
\* A repulsive-random stacker as __init__ leaves it.
InitRep ==
    /\ cls \in RepulsiveClasses
    /\ randomSeed \in Seeds
    /\ hasOff = FALSE /\ xOff = <<>> /\ yOff = <<>>
    /\ rng = 0
    /\ numPoints = 0 /\ missingCol = ""
    /\ IdleLocals
    /\ refBatch \in (IF randomSeed = <<>> THEN {<<>>} ELSE Batches(cls))
    /\ refSeen = FALSE
    /\ refResult = [pc |-> "idle", err |-> "", outRA |-> <<>>, outDec |-> <<>>]
    /\ wIn = <<>> /\ wOut = <<>>

NextRep ==
    \/ RunRandomStart
    \/ RepTiles
    \/ RepSelect
    \/ RepStore
    \/ ApplyOffsets
    \/ ReturnToCaller

SpecRep == InitRep /\ [][NextRep]_vars

\* -------------------------- the repulsive generator on larger batches
\* A seeded per-visit repulsive-random stacker as __init__ leaves it.
InitTile ==
    /\ cls = "RepulsiveRandomDitherFieldPerVisit"
    /\ randomSeed \in Seeds \ {<<>>}
    /\ hasOff = FALSE /\ xOff = <<>> /\ yOff = <<>>
    /\ rng = 0
    /\ numPoints = 0 /\ missingCol = ""
    /\ IdleLocals
    /\ refBatch \in Batches(cls)
    /\ refSeen = FALSE
    /\ refResult = [pc |-> "idle", err |-> "", outRA |-> <<>>, outDec |-> <<>>]
    /\ wIn = <<>> /\ wOut = <<>>

\* run of the per-visit stacker up to the generator call, on a larger
\* batch: up to MaxOffsets visits of one field.
RunRepStart ==
    /\ pc = "idle"
    /\ cls = "RepulsiveRandomDitherFieldPerVisit"
    /\ \E n \in (MaxRecords + 1)..MaxOffsets, f \in FieldIds :
        /\ simData' = [i \in 1..n |-> [ra |-> FieldRA(f), dec |-> FieldDec(f)]]
        /\ noffsets' = n
        /\ outRA' = Zeros(n)
        /\ outDec' = Zeros(n)
    /\ rng' = IF Seeded THEN SeedState(randomSeed[1]) ELSE rng
    /\ colsAdded' = TRUE
    /\ pc' = "generate"
    /\ UNCHANGED <<instVars, hasOff, xOff, yOff, err, seasons, written,
                   vertexIdxs, delta, cand, fresh, repVars, refVars, wrapVars>>

NextTile ==
    \/ RunRepStart
    \/ RepTiles
    \/ RepSelect
    \/ RepStore
    \/ ApplyOffsets
    \/ ReturnToCaller

SpecTile == InitTile /\ [][NextTile]_vars

\* ------------------------------------- _generateRandomOffsets on its own
\* A fresh per-visit random stacker inside run, at the generator call, with
\* the candidates the two rand calls are about to return.
InitGen ==
    /\ cls = "RandomDitherFieldPerVisit"
    /\ randomSeed = <<>>
    /\ hasOff = FALSE /\ xOff = <<>> /\ yOff = <<>>
    /\ rng = 0
    /\ numPoints = 0 /\ missingCol = ""
    /\ pc = "generate" /\ err = "" /\ seasons = <<>>
    /\ noffsets \in 1..MaxRecords
    /\ simData \in [1..noffsets -> RecordsOf(cls)]
    /\ colsAdded = TRUE
    /\ outRA = Zeros(noffsets) /\ outDec = Zeros(noffsets)
    /\ written = {} /\ vertexIdxs = <<>> /\ delta = 0
    /\ cand \in FreeCandidates(noffsets)
    /\ fresh = FALSE
    /\ tileSide = 0 /\ xCenter = <<>> /\ yCenter = <<>>
    /\ numPointsInsideHex = 0 /\ index_sq = 0 /\ index_pt = 0
    /\ xLoc = <<>> /\ yLoc = <<>> /\ tilesUsed = <<>>
    /\ refBatch = <<>>
    /\ refSeen = FALSE
    /\ refResult = [pc |-> "idle", err |-> "", outRA |-> <<>>, outDec |-> <<>>]
    /\ wIn = <<>> /\ wOut = <<>>

\* The generator call on the candidates cand.
RandomGenerateDrawn ==
    /\ pc = "generate"
    /\ cls \in RandomClasses
    /\ cand # <<>>
    /\ StoreRandom(cand)
    /\ pc' = "apply"
    /\ UNCHANGED <<instVars, rng, err, simData, seasons, colsAdded, outRA,
                   outDec, written, vertexIdxs, delta, noffsets, cand, repVars,
                   refVars, wrapVars>>

NextGen ==
    \/ RandomGenerateDrawn
    \/ ApplyOffsets

SpecGen == InitGen /\ [][NextGen]_vars

\* --------------------------------------------------- wrapRADec on its own
WrapRAs == {-1, 0, Pi, 2 * Pi, (5 * Pi) \div 2}

WrapDecs == {(k * Pi) \div 4 : k \in -12..12}

WrapInputs ==
    UNION {[ra : [1..n -> WrapRAs], dec : [1..n -> WrapDecs]] : n \in 1..2}

InitWrap ==
    /\ cls = "RandomDitherFieldPerVisit"
    /\ randomSeed = <<>>
    /\ hasOff = FALSE /\ xOff = <<>> /\ yOff = <<>>
    /\ rng = 0
    /\ numPoints = 0 /\ missingCol = ""
    /\ IdleLocals
    /\ refBatch = <<>>
    /\ refSeen = FALSE
    /\ refResult = [pc |-> "idle", err |-> "", outRA |-> <<>>, outDec |-> <<>>]
    /\ wIn \in WrapInputs
    /\ wOut = <<>>

WrapCall ==
    /\ wOut = <<>>
    /\ wOut' = <<wrapRADec(wIn.ra, wIn.dec)>>
    /\ UNCHANGED <<instVars, hasOff, xOff, yOff, rng, pc, err, simData,
                   seasons, colsAdded, outRA, outDec, written, vertexIdxs,
                   delta, noffsets, cand, fresh, repVars, refVars, wIn>>

\* wrapRADec called on its own result.
WrapAgain ==
    /\ Len(wOut) = 1
    /\ wOut' = Append(wOut, wrapRADec(wOut[1].ra, wOut[1].dec))
    /\ UNCHANGED <<instVars, hasOff, xOff, yOff, rng, pc, err, simData,
                   seasons, colsAdded, outRA, outDec, written, vertexIdxs,
                   delta, noffsets, cand, fresh, repVars, refVars, wIn>>

NextWrap ==
    \/ WrapCall
    \/ WrapAgain

SpecWrap == InitWrap /\ [][NextWrap]_vars


\* ================================================================ properties

\* C1 (SpecRep): in one generation of the repulsive-random generator no two
\* output points come from the same tile: a tile chosen once is never chosen
\* again.
C1_NoTileChosenTwice ==
    \A i \in 1..Len(tilesUsed), j \in 1..Len(tilesUsed) :
        i # j => tilesUsed[i] # tilesUsed[j]

\* C2 (SpecRep): every offset the repulsive-random generator produces, the
\* jitter in the tile included, lies in the hexagon: |y| <= sqrt(3)/2 *
\* maxDither and |y| <= sqrt(3) * (maxDither - |x|).
C2_RepulsiveInsideHexagon ==
    \A k \in 1..Len(xLoc) :
        /\ Abs(xLoc[k]) <= MaxDither
        /\ yLoc[k] * yLoc[k]
             <= 3 * (MaxDither - Abs(xLoc[k])) * (MaxDither - Abs(xLoc[k]))
        /\ 4 * yLoc[k] * yLoc[k] <= 3 * MaxDither * MaxDither

\* C3 (Spec): in a returned run of a per-field-per-night random stacker, two
\* records of different fields never use the same offset index.
C3_FieldsUseDisjointIndices ==
    (cls \in FieldPerNightClasses /\ pc = "returned") =>
        \A i \in 1..Len(simData), j \in 1..Len(simData) :
            simData[i].fieldID # simData[j].fieldID
                => vertexIdxs[i] # vertexIdxs[j]

\* C4 (Spec): a run of a season stacker on a batch with more than one
\* distinct season label above 9 never returns dithered output.
C4_SeasonOverflowNeverReturns ==
    ~(/\ cls \in SeasonClasses
      /\ pc = "returned"
      /\ Cardinality({simData[i].season : i \in 1..Len(simData)}
                     \ 0..SeasonMax) > 1)

\* C5 (Spec): a run of a random stacker in which the uniform generator
\* stored nothing for lack of accepted candidates ends in an error, on a
\* first run and on a later one: it never returns output.
C5_InsufficientYieldIsFatal ==
    (cls \in RandomClasses /\ pc \in {"returned", "raised"} /\ ~fresh)
        => (pc = "raised" /\ err # "")


\* C6 (Spec): the offsets a run applies are the offsets generated during
\* that same run: no run returns output computed from offsets that an
\* earlier run left on the instance.
C6_AppliedOffsetsAreOfThisRun ==
    pc = "returned" => (hasOff /\ fresh)

\* C7 (Spec): with a seed, every run on the batch refBatch ends as the first
\* run on that batch did: the same outcome and the same output columns.
C7_SeededRunsReproduce ==
    (Seeded /\ refSeen /\ simData = refBatch /\ pc \in {"returned", "raised"})
        => /\ pc = refResult.pc
           /\ outRA = refResult.outRA
           /\ outDec = refResult.outDec

\* C8 (SpecGen): what the uniform generator stores lies strictly inside the
\* hexagon, |y| < sqrt(3)/2 * maxDither and |y| < sqrt(3) * (maxDither - |x|),
\* has exactly noffsets entries, and these are the first noffsets accepted
\* candidates in the order drawn.
C8_StoredAreFirstAccepted ==
    hasOff =>
        LET px == [j \in 1..Len(cand) |-> CandX(cand[j][1], cand[j][2])]
            py == [j \in 1..Len(cand) |-> CandY(cand[j][1], cand[j][2])]
            acc == {j \in 1..Len(cand) :
                       /\ Abs(px[j]) < MaxDither
                       /\ py[j] * py[j]
                            < 3 * (MaxDither - Abs(px[j])) * (MaxDither - Abs(px[j]))
                       /\ 4 * py[j] * py[j] < 3 * MaxDither * MaxDither}
        IN /\ Len(xOff) = noffsets /\ Len(yOff) = noffsets
           /\ \A k \in 1..Len(xOff) :
                 /\ Abs(xOff[k]) < MaxDither
                 /\ yOff[k] * yOff[k]
                      < 3 * (MaxDither - Abs(xOff[k])) * (MaxDither - Abs(xOff[k]))
                 /\ 4 * yOff[k] * yOff[k] < 3 * MaxDither * MaxDither
           /\ \E p \in [1..noffsets -> acc] :
                 /\ \A k \in 1..(noffsets - 1) : p[k] < p[k + 1]
                 /\ \A j \in acc :
                       j <= p[noffsets] => \E k \in 1..noffsets : p[k] = j
                 /\ \A k \in 1..noffsets :
                       xOff[k] = px[p[k]] /\ yOff[k] = py[p[k]]

\* A generation that stored offsets although its first candidate was
\* rejected and one more than needed was accepted.
C8_Witness ==
    /\ pc = "apply" /\ hasOff /\ cand # <<>>
    /\ noffsets = MaxRecords
    /\ ~InsideHexStrict(CandX(cand[1][1], cand[1][2]),
                        CandY(cand[1][1], cand[1][2]))
    /\ Len(AcceptedIdx(cand)) > noffsets
    /\ xOff[1] # xOff[noffsets]

\* C9 (SpecTile): where fewer tile centres lie in the hexagon than offsets
\* are asked for, the run of the repulsive-random stacker ends in an error
\* before any offset is produced: nothing is stored, nothing is applied.
C9_TooFewTilesIsFatal ==
    LET side == (2 * MaxDither) \div TilesPerSide(noffsets)
        inside ==
            {i \in 1..(TilesPerSide(noffsets) * TilesPerSide(noffsets)) :
                LET x == TileX(i, noffsets, side)
                    y == TileY(i, noffsets, side)
                IN /\ Abs(x) <= MaxDither
                   /\ y * y <= 3 * (MaxDither - Abs(x)) * (MaxDither - Abs(x))
                   /\ 4 * y * y <= 3 * MaxDither * MaxDither}
    IN (/\ cls \in RepulsiveClasses
        /\ pc \notin {"idle", "generate"}
        /\ Cardinality(inside) < noffsets)
           => /\ pc = "raised" /\ err # ""
              /\ xLoc = <<>> /\ yLoc = <<>>
              /\ ~fresh
              /\ written = {}
              /\ outRA = Zeros(Len(simData)) /\ outDec = Zeros(Len(simData))

\* A later run that stopped on too few tiles, with the offsets of an
\* earlier run still on the instance.
C9_Witness ==
    /\ pc = "raised" /\ err = "NameError"
    /\ numPointsInsideHex > 0 /\ numPointsInsideHex < noffsets
    /\ hasOff /\ Len(xOff) < noffsets

\* C10 (SpecWrap): every element wrapRADec returns has ra in [0, 2*pi) and
\* dec in [-pi/2, pi/2], whatever the input.
C10_WrapRange ==
    \A c \in 1..Len(wOut) :
        \A i \in 1..Len(wOut[c].ra) :
            /\ 0 <= wOut[c].ra[i] /\ wOut[c].ra[i] < 2 * Pi
            /\ -Pi <= 2 * wOut[c].dec[i] /\ 2 * wOut[c].dec[i] <= Pi


\* C11 (SpecWrap): wrapRADec is idempotent: applied to its own result it
\* returns that result unchanged.
C11_WrapIdempotent ==
    Len(wOut) = 2 => wOut[2] = wOut[1]


C13_SeasonWrap ==
    (cls \in SeasonClasses /\ pc \in {"generate", "apply", "returned"})
    => /\ Len(seasons) = Len(simData)
       /\ \A i \in 1..Len(simData) :
             /\ simData[i].season <= 9 => seasons[i] = simData[i].season
             /\ simData[i].season > 9 =>
                   /\ seasons[i] \in 0..9
                   /\ \E q \in 1..simData[i].season :
                         simData[i].season = 10 * q + seasons[i]

\* A returned run on the labels 9 and 11: 9 is kept, 11 has become 1.
C13_Witness ==
    /\ cls \in SeasonClasses /\ pc = "returned"
    /\ Len(simData) = 2
    /\ simData[1].season = 9 /\ simData[2].season = 11
    /\ seasons = <<9, 1>>


\* C14 (Spec): in a returned run of a per-night or per-season stacker every
\* record is given the offset whose index is the number of distinct nights
\* (seasons, folded onto 0..9) of the whole batch smaller than its own,
\* modulo the length of the offset sequence, whatever its field.
C14_GlobalRank ==
    (/\ pc = "returned"
     /\ cls \in PerNightClasses \cup SequentialPerNightClasses
                \cup (SeasonClasses \ FieldPerSeasonClasses))
    => LET key(i) == IF cls \in SeasonClasses
                     THEN IF simData[i].season > SeasonMax
                          THEN simData[i].season % 10 ELSE simData[i].season
                     ELSE simData[i].night
       IN \A i \in 1..Len(simData) :
             /\ i \in written
             /\ vertexIdxs[i] =
                   Cardinality({key(j) : j \in {j \in 1..Len(simData) :
                                                   key(j) < key(i)}})
                       % Len(xOff)


\* C15 (Spec): every index a run uses to read the offset sequence lies in
\* 0 .. len(sequence) - 1: no run stops on an index out of range, and in a
\* returned run the index of every assigned record is in range.
C15_IndexInBounds ==
    /\ err # "IndexError"
    /\ pc = "returned" =>
          \A i \in written : 0 <= vertexIdxs[i] /\ vertexIdxs[i] < Len(xOff)

\* A returned per-visit run of a spiral of one point on two visits of one
\* field: the second visit has wrapped round to index 0.
C15_Witness ==
    /\ pc = "returned" /\ cls = "SpiralDitherFieldPerVisit"
    /\ Len(xOff) = 1 /\ Len(simData) = 2
    /\ simData[1].fieldID = simData[2].fieldID
    /\ written = {1, 2} /\ vertexIdxs = <<0, 0>>


\* C16 (Spec): a returned run has added the two output columns and has
\* assigned both of them for every record of the batch.
C16_EveryRecordAssigned ==
    pc = "returned" =>
        /\ colsAdded
        /\ Len(outRA) = Len(simData) /\ Len(outDec) = Len(simData)
        /\ written = 1..Len(simData)


\* C17 (Spec): a returned run of a per-visit random stacker holds a sequence
\* generated by that run with one offset per record of the batch, and record
\* i is dithered by the i-th offset, so no offset serves two records.
C17_PerVisitOwnOffset ==
    (pc = "returned" /\ cls \in PerVisitClasses) =>
        /\ fresh
        /\ Len(xOff) = Len(simData)
        /\ \A i \in 1..Len(simData) : i \in written /\ vertexIdxs[i] = i - 1


C19_MissingColumnAtBoundary ==
    missingCol # "" =>
        /\ pc \in {"idle", "raised"}
        /\ rng = 0
        /\ ~colsAdded
        /\ ~hasOff


\* C20 (SpecRep): after the tiling and after every pass of the selection loop
\* the pool is the set of the centres of the tiles inside the hexagon minus
\* the tiles chosen so far: xCenter and yCenter have one length, the pairs
\* (xCenter[i], yCenter[i]) are pairwise distinct, and they are exactly the
\* in-hexagon centres that are not in tilesUsed.
C20_PoolIsUnusedTiles ==
    (pc = "select" /\ cls \in RepulsiveClasses) =>
        LET t == TilesPerSide(noffsets)
            inHex == {c \in {<<TileX(k, noffsets, tileSide),
                               TileY(k, noffsets, tileSide)>> : k \in 1..(t * t)} :
                         InsideHexClosed(c[1], c[2])}
            used == {tilesUsed[k] : k \in 1..Len(tilesUsed)}
        IN /\ Len(xCenter) = Len(yCenter)
           /\ {<<xCenter[k], yCenter[k]>> : k \in 1..Len(xCenter)} = inHex \ used
           /\ \A k, l \in 1..Len(xCenter) :
                 (xCenter[k] = xCenter[l] /\ yCenter[k] = yCenter[l]) => k = l


\* C21 (SpecTile): in the selection loop of the repulsive generator xCenter,
\* yCenter and numPointsInsideHex agree in length at the start of every pass,
\* every index a variate in [0, 1) can give addresses an entry of the pool,
\* the retry branch with its stop is never taken, and each output point has
\* consumed one selection variate and two point variates.
C21_IndexAlwaysInPool ==
    cls \in RepulsiveClasses =>
        /\ pc = "select" =>
              /\ Len(xCenter) = numPointsInsideHex
              /\ Len(yCenter) = numPointsInsideHex
              /\ Len(xLoc) < noffsets =>
                    \A u \in 0..7 :
                        RandIndex(u, numPointsInsideHex) <= Len(xCenter) - 1
        /\ index_sq = Len(xLoc)
        /\ index_pt = 2 * Len(xLoc)
        /\ pc = "raised" => Len(xLoc) = 0

\* Three points selected from a pool of four tiles with the seed 1, one
\* entry left in each list, and the offsets stored.
C21_Witness ==
    /\ cls \in RepulsiveClasses /\ pc = "apply"
    /\ noffsets = 3 /\ Len(xLoc) = 3 /\ index_sq = 3 /\ index_pt = 6
    /\ Len(xCenter) = 1 /\ Len(yCenter) = 1 /\ numPointsInsideHex = 1


\* C22 (SpecWrap): wrapRADec element by element.  A dec in [-pi/2, pi/2] is
\* kept and the ra only reduced modulo 2 pi.  A dec above pi/2 becomes
\* pi - dec with the ra moved by -pi.  A dec below -pi/2 becomes -(pi + dec)
\* with the ra moved by -pi, and when that value is itself above pi/2 (dec
\* below -3 pi/2) the second test reflects it again, to 2 pi + dec, and moves
\* the ra by -pi once more.  Every ra goes through the same final modulo.
C22_WrapElementwise ==
    Len(wOut) >= 1 =>
        /\ Len(wOut[1].ra) = Len(wIn.ra) /\ Len(wOut[1].dec) = Len(wIn.dec)
        /\ \A i \in 1..Len(wIn.ra) :
              LET r == wIn.ra[i]
                  d == wIn.dec[i]
                  ro == wOut[1].ra[i]
                  do == wOut[1].dec[i]
              IN /\ (-Pi <= 2 * d /\ 2 * d <= Pi) =>
                        (do = d /\ ro = r % (2 * Pi))
                 /\ 2 * d > Pi =>
                        (do = Pi - d /\ ro = (r - Pi) % (2 * Pi))
                 /\ (2 * d < -Pi /\ 2 * d >= -3 * Pi) =>
                        (do = -(Pi + d) /\ ro = (r - Pi) % (2 * Pi))
                 /\ 2 * d < -3 * Pi =>
                        (do = 2 * Pi + d /\ ro = (r - 2 * Pi) % (2 * Pi))

\* A column of two elements: one reflected twice (dec -7 pi/4, ra pi) and one
\* left alone but for the modulo (dec 0, ra 5 pi/2).
C22_Witness ==
    /\ Len(wOut) >= 1
    /\ wIn.ra = <<Pi, (5 * Pi) \div 2>>
    /\ wIn.dec = <<(-7 * Pi) \div 4, 0>>
    /\ wOut[1].ra = <<Pi, Pi \div 2>>
    /\ wOut[1].dec = <<Pi \div 4, 0>>


\* C23 (SpecFixed): whenever a hexagonal-grid stacker holds offsets they are
\* the same lattice: 217 points, numPoints = len(xOff) = len(yOff) = 217, and
\* for each of the 17 rows i = -8..8 exactly 17 - |i| points lie at the
\* height of row i, whatever the batch.
C23_HexLattice ==
    (cls \in HexClasses /\ hasOff) =>
        /\ numPoints = 217
        /\ Len(xOff) = 217 /\ Len(yOff) = 217
        /\ \A i \in -8..8 :
              Cardinality({k \in 1..Len(yOff) :
                             yOff[k] = DivTrunc(95 * 1732 * MaxDither * i,
                                                100000 * 16)})
                  = 17 - Abs(i)
        /\ \A i, j \in -8..8 :
              i # j => DivTrunc(95 * 1732 * MaxDither * i, 100000 * 16)
                          # DivTrunc(95 * 1732 * MaxDither * j, 100000 * 16)

\* A hexagonal-grid run on a batch of two records has returned.
C23_Witness ==
    /\ cls \in HexClasses /\ pc = "returned" /\ fresh
    /\ Len(simData) = 2 /\ written = {1, 2}
    /\ numPoints = 217 /\ Len(xOff) = 217


\* C24 (SpecFixed), as stated: the hexagonal-grid offsets come row by row
\* from the top of the hexagon to the bottom and from left to right in a
\* row: from one offset to the next either the row is the same and x grows,
\* or the next row begins and y drops.
C24_HexRowMajorTopDown ==
    (cls \in HexClasses /\ hasOff) =>
        \A k \in 1..(Len(xOff) - 1) :
            \/ yOff[k + 1] = yOff[k] /\ xOff[k + 1] > xOff[k]
            \/ yOff[k + 1] < yOff[k]

\* C24 (SpecFixed), amended: the hexagonal-grid offsets come row by row in
\* the order of the row number -8..8, that is from the lowest y to the
\* highest, and from left to right in a row: from one offset to the next
\* either the row is the same and x grows, or the next row begins, y rises
\* and x starts again left of the last point of the row before.
C24_HexRowMajorAscending ==
    (cls \in HexClasses /\ hasOff) =>
        /\ \A k \in 1..(Len(xOff) - 1) :
              \/ yOff[k + 1] = yOff[k] /\ xOff[k + 1] > xOff[k]
              \/ yOff[k + 1] > yOff[k] /\ xOff[k + 1] < xOff[k]
        /\ yOff[1] < 0 /\ yOff[Len(yOff)] = -yOff[1]

\* The stored grid: the first row of 9 points at the lowest y, then the row
\* of 10 points above it.
C24_Witness ==
    /\ cls \in HexClasses /\ hasOff /\ pc = "apply"
    /\ Len(xOff) = 217
    /\ yOff[9] = yOff[1] /\ xOff[1] < xOff[9]
    /\ yOff[10] > yOff[9] /\ yOff[19] = yOff[10] /\ yOff[20] > yOff[19]


\* C25 (SpecFixed): a pentagon stacker holds exactly 10 offsets: the 5
\* vertices of the inner pentagon (radius maxDither/2.5, no rotation) in the
\* order polygonCoords gives them, then the 5 vertices of the outer pentagon
\* (radius maxDither/1.3, rotation pi) in the order 2, 3, 4, 0, 1, each of
\* them once.  A pentagon-and-diamond stacker holds exactly 10 offsets: the
\* origin, the 4 vertices of the diamond (radius maxDither/2.5, rotation
\* pi/2), the 5 vertices of the pentagon (radius maxDither/1.3, no rotation).
C25_PolygonOrder ==
    (cls \in SeasonClasses /\ hasOff) =>
        LET small == (MaxDither * 10) \div 25
            large == (MaxDither * 10) \div 13
            pt(k) == <<xOff[k], yOff[k]>>
        IN /\ Len(xOff) = 10 /\ Len(yOff) = 10
           /\ cls \in PentagonClasses =>
                 /\ \A k \in 1..5 : pt(k) = polygonCoords(5, small, 0)[k]
                 /\ \A k \in 0..4 :
                       pt(6 + k) = polygonCoords(5, large, 10)[((k + 2) % 5) + 1]
                 /\ Cardinality({pt(k) : k \in 6..10}) = 5
           /\ cls \notin PentagonClasses =>
                 /\ pt(1) = <<0, 0>>
                 /\ \A k \in 1..4 : pt(1 + k) = polygonCoords(4, small, 5)[k]
                 /\ \A k \in 1..5 : pt(5 + k) = polygonCoords(5, large, 0)[k]

\* A pentagon stacker has returned from a run; its sixth offset is vertex 2
\* of the outer pentagon and differs from vertex 0.
C25_Witness ==
    /\ cls \in PentagonClasses /\ pc = "returned" /\ fresh
    /\ Len(xOff) = 10
    /\ <<xOff[6], yOff[6]>> = polygonCoords(5, (MaxDither * 10) \div 13, 10)[3]
    /\ <<xOff[6], yOff[6]>> # polygonCoords(5, (MaxDither * 10) \div 13, 10)[1]


\* C26 (SpecFixed): a spiral stacker holds exactly numPoints offsets, their
\* distance from the centre never decreases from one offset to the next, and
\* none is farther from the centre than 0.85 * maxDither.
C26_SpiralRadii ==
    (cls \in SpiralClasses /\ hasOff) =>
        LET rr(k) == xOff[k] * xOff[k] + yOff[k] * yOff[k]
        IN /\ Len(xOff) = numPoints /\ Len(yOff) = numPoints
           /\ \A k \in 1..(Len(xOff) - 1) : rr(k) <= rr(k + 1)
           /\ \A k \in 1..Len(xOff) :
                 10000 * rr(k) <= (85 * MaxDither) * (85 * MaxDither)

\* A spiral of three points is stored and was applied: the centre, then two
\* points farther and farther out.
C26_Witness ==
    /\ cls \in SpiralClasses /\ pc = "returned" /\ fresh
    /\ numPoints = 3 /\ Len(xOff) = 3
    /\ xOff[1] = 0 /\ yOff[1] = 0
    /\ xOff[2] * xOff[2] + yOff[2] * yOff[2] > 0
    /\ xOff[3] * xOff[3] + yOff[3] * yOff[3]
          > xOff[2] * xOff[2] + yOff[2] * yOff[2]


\* C27 (SpecFixed): in a returned run of a spiral or hexagonal-grid per-visit
\* stacker the first record of every field is given vertex 0, and every
\* later record of a field is given the vertex after the one of the record
\* of that field before it, modulo numPoints, whatever the records of the
\* other fields in between.
C27_SequentialPerVisit ==
    (cls \in SequentialPerVisitClasses /\ pc = "returned") =>
        /\ written = 1..Len(simData)
        /\ \A i \in 1..Len(simData) :
              LET before == {j \in 1..(i - 1) :
                               simData[j].fieldID = simData[i].fieldID}
              IN IF before = {}
                 THEN vertexIdxs[i] = 0
                 ELSE LET last == CHOOSE j \in before :
                                     \A l \in before : l <= j
                      IN vertexIdxs[i] = (vertexIdxs[last] + 1) % numPoints

\* Two records of two different fields, each the first visit of its field,
\* on a stacker with more than one vertex: both are given vertex 0.
C27_Witness ==
    /\ cls \in SequentialPerVisitClasses /\ pc = "returned"
    /\ numPoints >= 2
    /\ Len(simData) = 2 /\ simData[1].fieldID # simData[2].fieldID
    /\ vertexIdxs = <<0, 0>> /\ written = {1, 2}

====
